---- MODULE Spec2Model ----
(***************************************************************************)
(* Model of the resilient request engine of the TickTick client            *)
(* (TickTickClient.makeAuthenticatedRequest) and of the error taxonomy it  *)
(* uses (TickTickApiError.fromHttpStatus).                                 *)
(*                                                                         *)
(* One logical call is a chain of attempts.  Every await of the async      *)
(* function is a step boundary: the fetch, the read of the response body,  *)
(* and the backoff sleep before the recursive call.                        *)
(*                                                                         *)
(* Spec is the engine alone.  SpecFacade puts the single-entity operations *)
(* of the client (validation, path and body of the request) and the remote *)
(* task the requests act on in front of it.  SpecAggregate runs the two    *)
(* aggregate operations (getAllProjectsWithTasks, the stats resource) over *)
(* the engine.  SpecConcurrent runs a second logical call beside the first.*)
(* SpecUtils applies the pure utility functions (priority maps, recurrence *)
(* rule and date range validators, timestamp conversions) to their inputs. *)
(***************************************************************************)
EXTENDS Integers, Sequences, FiniteSets, TLC

VARIABLES
    pc,          \* position of the logical call: idle, fetching, errbody, body, backoff, done
    retryCount,  \* the retryCount argument of the running invocation
    attempts,    \* number of fetch() calls issued by this logical call
    delays,      \* the backoff waits slept so far, in order (ms)
    timers,      \* attempts whose timeout timer is armed
    aborted,     \* attempts whose AbortController has been aborted
    resp,        \* the response of the attempt whose headers have arrived
    outcomes,    \* how each finished attempt ended: its status, "timeout", "network"
                 \* (error whose message contains "fetch"), "error" (any other error
                 \* of the fetch), "bodyfail" (the read of an ok body failed)
    errorDetails,\* the decoded body of the non-ok response of the running invocation
    text,        \* the text read from the ok response of the running invocation
    parsed,      \* JSON.parse was applied to the success body of this call
    result,      \* what the logical call returned or threw
    \* the facade operation that made the logical call
    op,          \* the facade method running or last run ("none": the engine alone)
    args,        \* the arguments the caller passed to it
    request,     \* endpoint and options passed to makeAuthenticatedRequest
    sent,        \* the requests handed to fetch() by this facade call
    applied,     \* the remote service has processed the attempt in flight
    taskStatus,  \* status of the task in the remote store (TaskAbsent, 0, 2)
    created,     \* entities the remote store has created for the call in progress
    \* the aggregate operation that drives the facade
    aggOp,       \* "getAllProjectsWithTasks", "stats" or "none"
    aggPc,       \* idle, listing, project, returned, threw
    listing,     \* how the getProjects call of the aggregate ended
    projects,    \* number of projects in the list getProjects returned (NoList: none)
    idx,         \* position in the list of the project being fetched
    entries,     \* projectsWithData (or projectStats) built so far
    requested,   \* the projects whose data has been requested, in order
    fetched,     \* how the data call of each requested project ended, in order
    inflight,    \* fetch() calls issued and not yet settled
    aggResult,   \* what the aggregate returned or threw
    \* a second logical call running on the same client
    other,       \* its position, retryCount, attempts, delays, outcomes and result
    \* the utility functions, applied on their own
    util         \* the function applied last, its input and its output

engineVars == <<pc, retryCount, attempts, delays, timers, aborted, resp, outcomes,
                errorDetails, text, parsed, result>>
facadeVars == <<op, args, request, sent, applied, taskStatus, created>>

aggVars == <<aggOp, aggPc, listing, projects, idx, entries, requested, fetched, inflight, aggResult>>
outerVars == <<facadeVars, aggVars, other, util>>

vars == <<engineVars, facadeVars, aggVars, other, util>>

----------------------------------------------------------------------------
(* Program constants *)

maxRetries == 3
BackoffBase == 1000
BackoffCap == 10000

(* Input domains *)

OkStatuses == {200, 204}
ErrStatuses == {400, 401, 403, 404, 429, 500, 502, 503, 504}
Statuses == OkStatuses \cup ErrStatuses

\* Content-Type header of a response; "absent" is a missing header (null).
ContentTypes == {"application/json", "text/plain", "application/octet-stream", "absent"}
\* Content-Length header: "0", some non-zero length, or a missing header.
ContentLengths == {"0", "n", "absent"}
\* Body of a non-ok response as response.text() delivers it.
ErrBodies == {"unreadable", "empty", "text", "json_unknown_exception", "json_other"}
\* Body of an ok response as response.text() delivers it.
OkBodies == {"empty", "blank", "json", "malformed"}
\* enum TickTickErrorCode
TickTickErrorCode == {"UNAUTHORIZED", "FORBIDDEN", "NOT_FOUND", "RATE_LIMITED", "SERVER_ERROR",
                      "NETWORK_ERROR", "VALIDATION_ERROR", "TIMEOUT_ERROR"}
\* Name of an error that is not a TickTickApiError.
ErrNames == {"AbortError", "TypeError"}

NoStatus == 0
NoResp == [status |-> NoStatus, contentType |-> "absent", contentLength |-> "absent"]
NoResult == [tag |-> "none", typed |-> TRUE, kind |-> "none", status |-> NoStatus,
             retryable |-> FALSE, details |-> "none", value |-> "none"]

Min(a, b) == IF a < b THEN a ELSE b

----------------------------------------------------------------------------
(* Pure parts of the engine *)

\* Mutant: a linear instead of an exponential backoff.
RetryDelayLinear(rc) == Min(BackoffBase * (rc + 1), BackoffCap)

\* const retryDelay = Math.min(1000 * Math.pow(2, retryCount), 10000)
RetryDelay(rc) == Min(BackoffBase * (2 ^ rc), BackoffCap)

\* new TickTickApiError(message, status, code, details, retryable)
ApiError(status, code, details, retryable) ==
    [tag |-> "failure", typed |-> TRUE, kind |-> code, status |-> status,
     retryable |-> retryable, details |-> details, value |-> "none"]

\* Mutant: the default branch of the switch marks the error retryable.
FromHttpStatusDefaultRetryable(status, details) ==
    CASE status = 401 -> ApiError(status, "UNAUTHORIZED", details, FALSE)
      [] status = 403 -> ApiError(status, "FORBIDDEN", details, FALSE)
      [] status = 404 -> ApiError(status, "NOT_FOUND", details, FALSE)
      [] status = 429 -> ApiError(status, "RATE_LIMITED", details, TRUE)
      [] status \in {500, 502, 503, 504} -> ApiError(status, "SERVER_ERROR", details, TRUE)
      [] OTHER -> ApiError(status, "SERVER_ERROR", details, TRUE)

\* Mutant: the case label 502 is missing, so 502 falls to the default branch.
FromHttpStatusNo502(status, details) ==
    CASE status = 401 -> ApiError(status, "UNAUTHORIZED", details, FALSE)
      [] status = 403 -> ApiError(status, "FORBIDDEN", details, FALSE)
      [] status = 404 -> ApiError(status, "NOT_FOUND", details, FALSE)
      [] status = 429 -> ApiError(status, "RATE_LIMITED", details, TRUE)
      [] status \in {500, 503, 504} -> ApiError(status, "SERVER_ERROR", details, TRUE)
      [] OTHER -> ApiError(status, "SERVER_ERROR", details, FALSE)

\* TickTickApiError.fromHttpStatus: the switch over the status
FromHttpStatus(status, details) ==
    CASE status = 401 -> ApiError(status, "UNAUTHORIZED", details, FALSE)
      [] status = 403 -> ApiError(status, "FORBIDDEN", details, FALSE)
      [] status = 404 -> ApiError(status, "NOT_FOUND", details, FALSE)
      [] status = 429 -> ApiError(status, "RATE_LIMITED", details, TRUE)
      [] status \in {500, 502, 503, 504} -> ApiError(status, "SERVER_ERROR", details, TRUE)
      [] OTHER -> ApiError(status, "SERVER_ERROR", details, FALSE)

\* errorDetails after the read and JSON-decode of a non-ok body:
\* null when the read fails or the text is empty, the parsed object when it
\* is JSON, { message: text } otherwise.
DecodeErrorBody(body) ==
    CASE body \in {"unreadable", "empty"} -> "null"
      [] body = "text" -> "message"
      [] body = "json_unknown_exception" -> "unknown_exception"
      [] OTHER -> "json"

\* errorDetails?.errorCode === "unknown_exception"
HasUnknownException(details) == details = "unknown_exception"

\* Mutant: rate-limited responses are not retried.
ShouldRetryNoRateLimit(apiError, status, details) ==
    /\ apiError.retryable
    /\ status \notin {404, 429}
    /\ ~(status = 500 /\ HasUnknownException(details))

\* Mutant: the backend error code is not looked at.
ShouldRetryIgnoringErrorCode(apiError, status, details) ==
    /\ apiError.retryable
    /\ status # 404

\* const shouldRetry = apiError.isRetryable() && status !== 404 && !(status === 500 && unknown_exception)
ShouldRetry(apiError, status, details) ==
    /\ apiError.retryable
    /\ status # 404
    /\ ~(status = 500 /\ HasUnknownException(details))

\* response.ok
IsOk(status) == status >= 200 /\ status <= 299

\* contentType?.includes("application/json") and contentType?.includes("text/")
IncludesJson(ct) == ct = "application/json"
IncludesText(ct) == ct = "text/plain"

\* Mutant: the content type is not looked at.
IsNoContentHeadersOnly(r) ==
    \/ r.status = 204
    \/ r.contentLength = "0"

\* The no-content test of a successful response
IsNoContent(r) ==
    \/ r.status = 204
    \/ r.contentLength = "0"
    \/ (~IncludesJson(r.contentType) /\ ~IncludesText(r.contentType))

\* Mutant: only the timeout is retryable.
ClassifyRawNetworkNotRetryable(errName, msgHasFetch) ==
    IF errName = "AbortError"
    THEN ApiError(NoStatus, "TIMEOUT_ERROR", "originalError", TRUE)
    ELSE ApiError(NoStatus, "NETWORK_ERROR", "originalError", FALSE)

\* Mutant: the AbortError is not recognised and is reported as a network error.
ClassifyRawAbortAsNetwork(errName, msgHasFetch) ==
    ApiError(NoStatus, "NETWORK_ERROR", "originalError",
             errName = "AbortError" \/ msgHasFetch)

\* Mutant: an error that is not retryable is rethrown as it was caught.
ClassifyRawRethrow(errName, msgHasFetch) ==
    IF errName = "AbortError"
    THEN ApiError(NoStatus, "TIMEOUT_ERROR", "originalError", TRUE)
    ELSE IF msgHasFetch
    THEN ApiError(NoStatus, "NETWORK_ERROR", "originalError", TRUE)
    ELSE [tag |-> "failure", typed |-> FALSE, kind |-> "none", status |-> NoStatus,
          retryable |-> FALSE, details |-> "none", value |-> "none"]

\* The catch block's classification of an error that is not a TickTickApiError
ClassifyRaw(errName, msgHasFetch) ==
    IF errName = "AbortError"
    THEN ApiError(NoStatus, "TIMEOUT_ERROR", "originalError", TRUE)
    ELSE ApiError(NoStatus, "NETWORK_ERROR", "originalError", msgHasFetch)

\* Mutant: the catch block classifies a TickTickApiError like any other error.
RethrowClassified(error) == ApiError(NoStatus, "NETWORK_ERROR", "originalError", FALSE)

\* if (error instanceof TickTickApiError) throw error: the error thrown in the
\* try block leaves the catch block, and every level of the recursion, as it is.
Rethrow(error) == error

\* Mutant: the parse failure is built with the retryable flag set.
ParseErrorRetryable(status) == ApiError(status, "SERVER_ERROR", "parseError", TRUE)

\* new TickTickApiError("...", response.status, SERVER_ERROR, { parseError, responseText })
ParseError(status) == ApiError(status, "SERVER_ERROR", "parseError", FALSE)

Success(v) ==
    [tag |-> "success", typed |-> TRUE, kind |-> "none", status |-> NoStatus,
     retryable |-> FALSE, details |-> "none", value |-> v]

----------------------------------------------------------------------------
(* Pure parts of the facade: validators and the request each method builds *)

\* Bounds of the inputs
MaxInstant == 2
MaxItems == 2

\* A string argument is "ok" (non-blank) or "blank" (undefined, empty or
\* only white space: !s?.trim()); an optional one may also be "absent".
\* A date argument is its textual form and the instant it denotes:
\*   "Z"       YYYY-MM-DDTHH:mm:ssZ
\*   "offset"  YYYY-MM-DDTHH:mm:ss+HHMM
\*   "millisZ" YYYY-MM-DDTHH:mm:ss.sssZ (what Date.toISOString() prints)
\*   "other"   any other text Date can parse, e.g. 2024-01-01
\*   "invalid" a text Date cannot parse
\*   "number"  a millisecond timestamp (ChecklistItem.startDate may be one)
\*   "absent"  undefined, the empty string or 0
\*   "millisOffset" YYYY-MM-DDTHH:mm:ss.sss+0000 (output only)
NoDate == [form |-> "absent", t |-> 0]
InputDateForms == {"Z", "offset", "millisZ", "other", "invalid"}
Dates == {NoDate} \cup [form : InputDateForms, t : 1..MaxInstant]
FormatFailed == [form |-> "error", t |-> 0]

NoPriority == -1
Priorities == {NoPriority, 0, 1, 2, 3, 5}

TaskAbsent == -1
TaskStatusNormal == 0
TaskStatusCompleted == 2

\* validateISO8601Date of utils/validators.ts: the regular expression admits
\* no fraction of a second.
ValidateISO8601Date(d) == d.form \in {"Z", "offset"}

\* date.endsWith("Z")
EndsWithZ(d) == d.form \in {"Z", "millisZ"}

\* Mutant: a valid wire date is returned as it came, "Z" included.
FormatDateToISO8601KeepZ(d) ==
    IF ValidateISO8601Date(d) THEN d
    ELSE IF d.form \in {"invalid", "number"} THEN FormatFailed
    ELSE [form |-> "millisOffset", t |-> d.t]

\* formatDateToISO8601 of utils/validators.ts
FormatDateToISO8601(d) ==
    IF ValidateISO8601Date(d)
    THEN (IF EndsWithZ(d) THEN [form |-> "offset", t |-> d.t] ELSE d)
    ELSE IF d.form \in {"invalid", "number"} THEN FormatFailed
    ELSE [form |-> "millisOffset", t |-> d.t]

\* validateTimeZone, validateProjectColor, validateViewMode, validateProjectKind:
\* the argument is abstracted to whether the check accepts it.
ValidateTimeZone(tz) == tz = "valid"
ValidateProjectColor(c) == c = "valid"
ValidateViewMode(v) == v = "valid"
ValidateProjectKind(k) == k = "valid"

\* Mutant: every number is accepted as a priority.
ValidatePriorityAny(p) == TRUE

\* validatePriority: [0, 1, 3, 5].includes(priority)
ValidatePriority(p) == p \in {0, 1, 3, 5}

\* formatDateToISO8601 throws for a text Date cannot parse and for a value
\* that is neither a string nor a Date.
\* The arguments of a facade method, one record for all methods.
DefaultArgs ==
    [taskId |-> "ok", id |-> "ok", projectId |-> "ok", title |-> "ok", name |-> "ok",
     startDate |-> NoDate, dueDate |-> NoDate, timeZone |-> "absent",
     priority |-> NoPriority, items |-> <<>>,
     color |-> "absent", viewMode |-> "absent", kind |-> "absent"]

DefaultItem == [id |-> "ok", title |-> "ok", startDate |-> NoDate, timeZone |-> "absent"]

\* What a validation reports: the check that failed (field; index is the
\* position of the checklist item or -1) and whether the error carries the
\* details object { field, value }.
Passed == [field |-> "ok", index |-> -1, details |-> FALSE]
Rejected(f, i, d) == [field |-> f, index |-> i, details |-> d]

\* Mutant: the loop of updateTask does not ask for the id of the item.
CheckItemWithoutId(item, i, isUpdate) ==
    IF item.title # "ok" THEN Rejected("items.title", i, TRUE)
    ELSE IF item.startDate # NoDate /\ FormatDateToISO8601(item.startDate) = FormatFailed
         THEN Rejected("items.startDate", i, TRUE)
    ELSE IF item.timeZone # "absent" /\ ~ValidateTimeZone(item.timeZone)
         THEN Rejected("items.timeZone", i, TRUE)
    ELSE Passed

\* One pass of the checklist-item loop of createTask / updateTask for items[i]
\* (i counted from 0 as in the code).
CheckItem(item, i, isUpdate) ==
    IF isUpdate /\ item.id # "ok" THEN Rejected("items.id", i, TRUE)
    ELSE IF item.title # "ok" THEN Rejected("items.title", i, TRUE)
    ELSE IF item.startDate # NoDate /\ FormatDateToISO8601(item.startDate) = FormatFailed
         THEN Rejected("items.startDate", i, TRUE)
    ELSE IF item.timeZone # "absent" /\ ~ValidateTimeZone(item.timeZone)
         THEN Rejected("items.timeZone", i, TRUE)
    ELSE Passed

\* The loop: the first item that is rejected ends it.
RECURSIVE CheckItems(_, _, _)
CheckItems(items, i, isUpdate) ==
    IF i >= Len(items) THEN Passed
    ELSE LET v == CheckItem(items[i + 1], i, isUpdate) IN
         IF v # Passed THEN v ELSE CheckItems(items, i + 1, isUpdate)

\* The checks createTask and updateTask share, after the required fields.
CheckTaskFields(a, isUpdate) ==
    IF a.startDate # NoDate /\ FormatDateToISO8601(a.startDate) = FormatFailed
    THEN Rejected("startDate", -1, TRUE)
    ELSE IF a.dueDate # NoDate /\ FormatDateToISO8601(a.dueDate) = FormatFailed
    THEN Rejected("dueDate", -1, TRUE)
    ELSE IF a.timeZone # "absent" /\ ~ValidateTimeZone(a.timeZone)
    THEN Rejected("timeZone", -1, TRUE)
    ELSE IF a.priority # NoPriority /\ ~ValidatePriority(a.priority)
    THEN Rejected("priority", -1, TRUE)
    ELSE CheckItems(a.items, 0, isUpdate)

\* The validation of createTask
ValidateCreateTask(a) ==
    IF a.title # "ok" THEN Rejected("title", -1, FALSE)
    ELSE IF a.projectId # "ok" THEN Rejected("projectId", -1, FALSE)
    ELSE CheckTaskFields(a, FALSE)

\* The validation of updateTask
ValidateUpdateTask(a) ==
    IF a.taskId # "ok" THEN Rejected("taskId", -1, FALSE)
    ELSE IF a.id # "ok" THEN Rejected("id", -1, FALSE)
    ELSE IF a.projectId # "ok" THEN Rejected("projectId", -1, FALSE)
    ELSE CheckTaskFields(a, TRUE)

\* The checks createProject and updateProject share, after the name.
CheckProjectFields(a) ==
    IF a.color # "absent" /\ ~ValidateProjectColor(a.color)
    THEN Rejected("color", -1, TRUE)
    ELSE IF a.viewMode # "absent" /\ ~ValidateViewMode(a.viewMode)
    THEN Rejected("viewMode", -1, TRUE)
    ELSE IF a.kind # "absent" /\ ~ValidateProjectKind(a.kind)
    THEN Rejected("kind", -1, TRUE)
    ELSE Passed

\* The validation of createProject
ValidateCreateProject(a) ==
    IF a.name # "ok" THEN Rejected("name", -1, FALSE)
    ELSE CheckProjectFields(a)

\* The validation of updateProject: the name may be left out (undefined) but
\* not blank.
ValidateUpdateProject(a) ==
    IF a.projectId # "ok" THEN Rejected("projectId", -1, FALSE)
    ELSE IF a.name = "blank" THEN Rejected("name", -1, FALSE)
    ELSE CheckProjectFields(a)

MutatingOps == {"createTask", "updateTask", "createProject", "updateProject"}
ReadOps == {"getProjects", "getProject", "getProjectWithData", "getTask"}
PlainOps == {"deleteProject", "completeTask", "deleteTask"}
Ops == MutatingOps \cup ReadOps \cup PlainOps

\* What a facade method checks before it calls the engine.
Validate(o, a) ==
    CASE o = "createTask" -> ValidateCreateTask(a)
      [] o = "updateTask" -> ValidateUpdateTask(a)
      [] o = "createProject" -> ValidateCreateProject(a)
      [] o = "updateProject" -> ValidateUpdateProject(a)
      [] OTHER -> Passed

\* new TickTickValidationError(message, details)
TickTickValidationError(v) ==
    ApiError(NoStatus, "VALIDATION_ERROR",
             IF v.details THEN v.field ELSE "none", FALSE)

\* options.method of each facade method (GET when none is given)
MethodOf(o) ==
    CASE o \in ReadOps -> "GET"
      [] o \in {"deleteProject", "deleteTask"} -> "DELETE"
      [] OTHER -> "POST"

\* Mutant: completeTask goes through the generic update path.
PathOfCompleteAsUpdate(o) ==
    CASE o = "getProjects" -> "/project"
      [] o = "getProject" -> "/project/{projectId}"
      [] o = "getProjectWithData" -> "/project/{projectId}/data"
      [] o = "createProject" -> "/project"
      [] o = "updateProject" -> "/project/{projectId}"
      [] o = "deleteProject" -> "/project/{projectId}"
      [] o = "getTask" -> "/project/{projectId}/task/{taskId}"
      [] o = "createTask" -> "/task"
      [] o = "updateTask" -> "/task/{taskId}"
      [] o = "completeTask" -> "/task/{taskId}"
      [] OTHER -> "/project/{projectId}/task/{taskId}"

\* The endpoint template of each facade method
PathOf(o) ==
    CASE o = "getProjects" -> "/project"
      [] o = "getProject" -> "/project/{projectId}"
      [] o = "getProjectWithData" -> "/project/{projectId}/data"
      [] o = "createProject" -> "/project"
      [] o = "updateProject" -> "/project/{projectId}"
      [] o = "deleteProject" -> "/project/{projectId}"
      [] o = "getTask" -> "/project/{projectId}/task/{taskId}"
      [] o = "createTask" -> "/task"
      [] o = "updateTask" -> "/task/{taskId}"
      [] o = "completeTask" -> "/project/{projectId}/task/{taskId}/complete"
      [] OTHER -> "/project/{projectId}/task/{taskId}"

\* A date field after the in-place normalisation: if (x) x = formatDateToISO8601(x)
Normalized(d) == IF d = NoDate THEN NoDate ELSE FormatDateToISO8601(d)

NoBody == [present |-> FALSE, startDate |-> NoDate, dueDate |-> NoDate,
           itemDates |-> <<>>, status |-> TaskAbsent]

\* Mutant: the update body carries status 0.
TaskBodyWithStatus(a) ==
    [present |-> TRUE,
     startDate |-> Normalized(a.startDate),
     dueDate |-> Normalized(a.dueDate),
     itemDates |-> [i \in 1..Len(a.items) |-> Normalized(a.items[i].startDate)],
     status |-> TaskStatusNormal]

\* JSON.stringify(task) of createTask / updateTask after the normalisation.
\* CreateTaskRequest and UpdateTaskRequest have no status field.
TaskBody(a) ==
    [present |-> TRUE,
     startDate |-> Normalized(a.startDate),
     dueDate |-> Normalized(a.dueDate),
     itemDates |-> [i \in 1..Len(a.items) |-> Normalized(a.items[i].startDate)],
     status |-> TaskAbsent]

\* JSON.stringify(project) of createProject / updateProject
ProjectBody(a) == [NoBody EXCEPT !.present = TRUE]

\* options.body of each facade method
BodyOf(o, a) ==
    CASE o \in {"createTask", "updateTask"} -> TaskBody(a)
      [] o \in {"createProject", "updateProject"} -> ProjectBody(a)
      [] OTHER -> NoBody

NoList == -1

\* A logical call that has not been made
IdleCall == [pc |-> "idle", retryCount |-> 0, attempts |-> 0, delays |-> <<>>,
             outcomes |-> <<>>, result |-> NoResult]

\* No utility function has been applied
NoUtil == [fn |-> "none", input |-> "none", output |-> "none"]

NoRequest == [method |-> "none", path |-> "none", body |-> NoBody]

\* The call of makeAuthenticatedRequest a facade method makes
RequestOf(o, a) == [method |-> MethodOf(o), path |-> PathOf(o), body |-> BodyOf(o, a)]

\* What the remote service does to the task when it processes a request
\* (the service is outside the repository: create makes a normal task, the
\* completion endpoint completes it, delete removes it, an update changes the
\* status only if its body carries one).
RemoteEffect(req, st) ==
    CASE req.method = "POST" /\ req.path = "/task" ->
            (IF st = TaskAbsent THEN TaskStatusNormal ELSE st)
      [] req.method = "POST" /\ req.path = "/task/{taskId}" ->
            (IF st # TaskAbsent /\ req.body.status # TaskAbsent THEN req.body.status ELSE st)
      [] req.method = "POST" /\ req.path = "/project/{projectId}/task/{taskId}/complete" ->
            (IF st # TaskAbsent THEN TaskStatusCompleted ELSE st)
      [] req.method = "DELETE" /\ req.path = "/project/{projectId}/task/{taskId}" -> TaskAbsent
      [] OTHER -> st

\* How many entities the remote service creates when it processes a request:
\* a POST to /task or /project creates one each time it is processed (the
\* body carries no id and no idempotency key).
RemoteCreates(req) ==
    IF req.method = "POST" /\ req.path \in {"/task", "/project"} THEN 1 ELSE 0

----------------------------------------------------------------------------
(* Pure utility functions *)

MaxOrdinal == 6

PriorityNames == {"none", "low", "medium", "high"}
Ordinals == 0..MaxOrdinal

\* PRIORITY_MAP[name]; a key the object does not have reads as undefined.
PRIORITY_MAP(n) ==
    CASE n = "none" -> 0
      [] n = "low" -> 1
      [] n = "medium" -> 3
      [] n = "high" -> 5
      [] OTHER -> NoPriority

\* Mutant: an ordinal without a name is read as the name below it.
PRIORITY_REVERSE_MAP_Coercing(o) ==
    CASE o = 0 -> "none"
      [] o \in {1, 2} -> "low"
      [] o \in {3, 4} -> "medium"
      [] OTHER -> "high"

\* PRIORITY_REVERSE_MAP[ordinal]; a key the object does not have reads as
\* undefined.
PRIORITY_REVERSE_MAP(o) ==
    CASE o = 0 -> "none"
      [] o = 1 -> "low"
      [] o = 3 -> "medium"
      [] o = 5 -> "high"
      [] OTHER -> "undefined"

\* A recurrence rule is the text "RRULE:" (or not) followed by KEY=value
\* parts separated by ";".  The value of INTERVAL, of COUNT and of each entry
\* of BYMONTHDAY is a text made of an optional "-", decimal digits (or none)
\* and a tail ("" or letters): "1", "0", "-1", "abc", "2x", "".  A key that
\* the rule does not have is a text that is not present.
MaxDays == 2
MaxNumber == 32
NoDigits == -1
NaN == -100
NoMatch == -200

NumText(sign, digits, tail) == [present |-> TRUE, sign |-> sign, digits |-> digits, tail |-> tail]
AbsentText == [present |-> FALSE, sign |-> "", digits |-> NoDigits, tail |-> ""]

KeyTexts ==
    {AbsentText, NumText("", 1, ""), NumText("", 2, ""), NumText("", 0, ""),
     NumText("-", 1, ""), NumText("", NoDigits, "abc"), NumText("", NoDigits, "")}

DayTexts ==
    {NumText("", 1, ""), NumText("", 31, ""), NumText("", MaxNumber, ""), NumText("", 0, ""),
     NumText("-", 1, ""), NumText("-", 31, ""), NumText("-", MaxNumber, ""),
     NumText("", NoDigits, "abc"), NumText("", 1, "x"), NumText("", NoDigits, "")}

DayLists == UNION {[1..n -> DayTexts] : n \in 0..MaxDays}

FreqTexts == {"absent", "", "DAILY", "WEEKLY", "MONTHLY", "YEARLY", "HOURLY", "daily"}
Abstracted == {"absent", "valid", "invalid"}

DefaultRule ==
    [prefix |-> TRUE, freq |-> "DAILY", interval |-> AbsentText, count |-> AbsentText,
     until |-> "absent", byday |-> "absent", bymonthday |-> <<>>]

Rules ==
    {[DefaultRule EXCEPT !.prefix = p, !.freq = f, !.interval = i, !.count = c] :
        p \in BOOLEAN, f \in FreqTexts, i \in KeyTexts, c \in KeyTexts}
    \cup {[DefaultRule EXCEPT !.until = u, !.byday = b, !.bymonthday = d] :
            u \in Abstracted, b \in Abstracted, d \in DayLists}

\* rrule.match(/KEY=(\d+)/): the digits right after "KEY=", as a number.
MatchDigits(t) ==
    IF t.present /\ t.sign = "" /\ t.digits # NoDigits THEN t.digits ELSE NoMatch

\* parseInt(text): an optional sign and the digits that follow it; what comes
\* after the digits is ignored, no digits give NaN.
ParseInt(t) ==
    IF t.digits = NoDigits THEN NaN
    ELSE IF t.sign = "-" THEN 0 - t.digits ELSE t.digits

\* rrule.match(/FREQ=([^;]+)/): needs at least one character after "FREQ=".
MatchFreq(r) == IF r.freq \notin {"absent", ""} THEN r.freq ELSE "nomatch"

\* rrule.match(/BYMONTHDAY=([^;]+)/)?.[1].split(","): the entries, when the
\* text after "BYMONTHDAY=" is not empty.
MatchDays(r) ==
    IF r.bymonthday = <<>> \/ r.bymonthday = <<NumText("", NoDigits, "")>>
    THEN <<>>
    ELSE r.bymonthday

\* isNaN(dayNum) || dayNum > 31 || dayNum < -31 || dayNum === 0
BadDay(n) == n = NaN \/ n > 31 \/ n < -31 \/ n = 0

SupportedFreq == {"DAILY", "WEEKLY", "MONTHLY", "YEARLY"}

\* validateRRule of utils/date-utils.ts (UNTIL and BYDAY are abstracted to
\* whether their check accepts them); every check after the first two is
\* made only if its pattern matches.
ValidateRRule(r) ==
    /\ r.prefix
    /\ r.freq # "absent"
    /\ MatchFreq(r) # "nomatch" => MatchFreq(r) \in SupportedFreq
    /\ MatchDigits(r.interval) # NoMatch => MatchDigits(r.interval) >= 1
    /\ MatchDigits(r.count) # NoMatch => MatchDigits(r.count) >= 1
    /\ r.until # "invalid"
    /\ r.byday # "invalid"
    /\ \A k \in 1..Len(MatchDays(r)) : ~BadDay(ParseInt(MatchDays(r)[k]))

\* validateDateRange of utils/date-utils.ts.  An argument is absent (empty,
\* null, undefined) or a text; new Date(text) gives the instant of every form
\* but "invalid".  The result is the boolean returned, or "throws".
ParsesAsDate(d) == d.form # "invalid"

\* Mutant: equal instants are not a valid range.
ValidateDateRangeStrict(startDate, dueDate) ==
    IF startDate = NoDate \/ dueDate = NoDate THEN "true"
    ELSE IF ~ParsesAsDate(startDate) \/ ~ParsesAsDate(dueDate) THEN "throws"
    ELSE IF startDate.t < dueDate.t THEN "true" ELSE "false"

ValidateDateRange(startDate, dueDate) ==
    IF startDate = NoDate \/ dueDate = NoDate THEN "true"
    ELSE IF ~ParsesAsDate(startDate) \/ ~ParsesAsDate(dueDate) THEN "throws"
    ELSE IF startDate.t <= dueDate.t THEN "true" ELSE "false"

\* Millisecond timestamps.  The landmarks of the Date type are scaled down to
\* small numbers, in their true order:
\*   a Date holds an instant only within +-8.64e15 ms      (+-DateLimit)
\*   toISOString prints four year digits from 0000-01-01   (YearZeroStart)
\*   up to the end of 9999-12-31                           (YearTenThousandStart - 1)
\*   and a sign with six year digits outside that span.
MaxTimestamp == 6
DateLimit == 5
YearZeroStart == -3
YearTenThousandStart == 3
Timestamps == (0 - MaxTimestamp)..MaxTimestamp

NoTimestamp == -1000

\* !isNaN(new Date(timestamp).getTime())
IsValidDate(t) == t >= 0 - DateLimit /\ t <= DateLimit

\* date.toISOString().replace("Z", "+0000") of formatDateToISO8601 for a Date
\* object; an invalid Date makes it throw.
FormatDateObject(t) ==
    IF ~IsValidDate(t) THEN FormatFailed
    ELSE IF t >= YearZeroStart /\ t < YearTenThousandStart
    THEN [form |-> "millisOffset", t |-> t]
    ELSE [form |-> "expandedYear", t |-> t]

\* timestampToISO8601 of utils/date-utils.ts
TimestampToISO8601(t) == FormatDateObject(t)

\* Mutant: the pattern of utils/validators.ts, which admits no fraction of a
\* second.
ValidateISO8601DateOfDateUtilsNoFraction(d) == d.form \in {"Z", "offset"}

\* validateISO8601Date of utils/date-utils.ts: four year digits, an optional
\* fraction of a second, then "Z" or a four-digit offset.
ValidateISO8601DateOfDateUtils(d) == d.form \in {"Z", "offset", "millisZ", "millisOffset"}

\* iso8601ToTimestamp of utils/date-utils.ts; NoTimestamp when it throws.
Iso8601ToTimestamp(d) ==
    IF ValidateISO8601DateOfDateUtils(d) THEN d.t ELSE NoTimestamp

\* The text ends with "+0000".
EndsWithUtcOffset(d) == d.form \in {"millisOffset", "expandedYear"}

----------------------------------------------------------------------------
(* State machine *)

Init ==
    /\ pc = "idle"
    /\ retryCount = 0
    /\ attempts = 0
    /\ delays = <<>>
    /\ timers = {}
    /\ aborted = {}
    /\ resp = NoResp
    /\ outcomes = <<>>
    /\ errorDetails = "null"
    /\ text = "none"
    /\ parsed = FALSE
    /\ result = NoResult
    /\ op = "none"
    /\ args = DefaultArgs
    /\ request = NoRequest
    /\ sent = {}
    /\ applied = FALSE
    /\ taskStatus = TaskAbsent
    /\ created = 0
    /\ aggOp = "none"
    /\ aggPc = "idle"
    /\ listing = "none"
    /\ projects = NoList
    /\ idx = 0
    /\ entries = <<>>
    /\ requested = <<>>
    /\ fetched = <<>>
    /\ inflight = 0
    /\ aggResult = "none"
    /\ other = IdleCall
    /\ util = NoUtil

\* A facade method calls makeAuthenticatedRequest(endpoint, options): the
\* invocation with retryCount = 0 arms its timer and issues the fetch.
IssueFirstAttempt ==
    /\ pc' = "fetching"
    /\ retryCount' = 0
    /\ attempts' = 1
    /\ delays' = <<>>
    /\ timers' = {1}
    /\ aborted' = {}
    /\ resp' = NoResp
    /\ outcomes' = <<>>
    /\ errorDetails' = "null"
    /\ text' = "none"
    /\ parsed' = FALSE
    /\ result' = NoResult

\* A logical call is made on a client that has none running.
StartCall ==
    /\ pc \in {"idle", "done"}
    /\ IssueFirstAttempt

\* setTimeout(() => controller.abort(), this.timeout) fires for attempt k.
TimeoutFire(k) ==
    /\ k \in timers
    /\ timers' = timers \ {k}
    /\ aborted' = aborted \cup {k}
    /\ UNCHANGED <<pc, retryCount, attempts, delays, resp, outcomes, errorDetails, text, parsed, result>>

\* The catch block for an error that is not a TickTickApiError.
CatchRaw(errName, msgHasFetch, tag) ==
    LET networkError == ClassifyRaw(errName, msgHasFetch) IN
    /\ timers' = timers \ {attempts}
    /\ outcomes' = Append(outcomes, tag)
    /\ resp' = NoResp
    /\ IF networkError.retryable /\ retryCount < maxRetries
       THEN /\ pc' = "backoff"
            /\ delays' = Append(delays, RetryDelay(retryCount))
            /\ UNCHANGED result
       ELSE /\ pc' = "done"
            /\ result' = networkError
            /\ UNCHANGED delays
    /\ UNCHANGED <<retryCount, attempts, aborted, errorDetails, text, parsed>>

\* await fetch(...) rejects: with an AbortError when the controller of the
\* attempt was aborted, with a network error otherwise.
FetchReject(errName, msgHasFetch) ==
    /\ pc = "fetching"
    /\ (attempts \in aborted) <=> (errName = "AbortError")
    /\ CatchRaw(errName, msgHasFetch,
                IF errName = "AbortError" THEN "timeout"
                ELSE IF msgHasFetch THEN "network" ELSE "error")

\* await fetch(...) resolves with the response headers; clearTimeout; a
\* successful response without content returns at once.
FetchRespond(status, ct, cl) ==
    LET r == [status |-> status, contentType |-> ct, contentLength |-> cl] IN
    /\ pc = "fetching"
    /\ attempts \notin aborted
    /\ timers' = timers \ {attempts}
    /\ IF ~IsOk(status)
       THEN /\ pc' = "errbody"
            /\ resp' = r
            /\ UNCHANGED <<outcomes, result>>
       ELSE IF IsNoContent(r)
       THEN /\ pc' = "done"
            /\ resp' = r
            /\ outcomes' = Append(outcomes, ToString(status))
            /\ result' = Success("empty")
       ELSE /\ pc' = "body"
            /\ resp' = r
            /\ UNCHANGED <<outcomes, result>>
    /\ UNCHANGED <<retryCount, attempts, delays, aborted, errorDetails, text, parsed>>

\* The non-ok branch: read and decode the error body, build the error from
\* the status, then retry after the backoff or throw.
ErrBodyRead(body) ==
    LET details == DecodeErrorBody(body)
        apiError == FromHttpStatus(resp.status, details)
        shouldRetry == ShouldRetry(apiError, resp.status, details)
    IN
    /\ pc = "errbody"
    /\ errorDetails' = details
    /\ outcomes' = Append(outcomes, ToString(resp.status))
    /\ IF shouldRetry /\ retryCount < maxRetries
       THEN /\ pc' = "backoff"
            /\ delays' = Append(delays, RetryDelay(retryCount))
            /\ UNCHANGED result
       ELSE /\ pc' = "done"
            /\ result' = Rethrow(apiError)
            /\ UNCHANGED delays
    /\ UNCHANGED <<retryCount, attempts, timers, aborted, resp, text, parsed>>

\* The ok branch with content: await response.text() resolves; an empty or
\* blank text returns the empty result, anything else goes through JSON.parse.
BodyRead(body) ==
    /\ pc = "body"
    /\ (body = "empty") => (resp.contentLength = "absent")
    /\ pc' = "done"
    /\ text' = body
    /\ outcomes' = Append(outcomes, ToString(resp.status))
    /\ IF body \in {"empty", "blank"}
       THEN /\ result' = Success("empty")
            /\ UNCHANGED parsed
       ELSE /\ parsed' = TRUE
            /\ result' = IF body = "json"
                         THEN Success("json")
                         ELSE Rethrow(ParseError(resp.status))
    /\ UNCHANGED <<retryCount, attempts, delays, timers, aborted, resp, errorDetails>>

\* The ok branch with content: await response.text() rejects.  The timer of
\* the attempt is cleared by then, so the error is never the AbortError.
BodyReadFail(msgHasFetch) ==
    /\ pc = "body"
    /\ CatchRaw("TypeError", msgHasFetch, "bodyfail")

\* The backoff sleep ends: the recursive invocation with retryCount + 1 arms
\* its own timer and issues the next fetch.
BackoffElapsed ==
    /\ pc = "backoff"
    /\ pc' = "fetching"
    /\ retryCount' = retryCount + 1
    /\ attempts' = attempts + 1
    /\ timers' = timers \cup {attempts + 1}
    /\ resp' = NoResp
    /\ errorDetails' = "null"
    /\ text' = "none"
    /\ UNCHANGED <<delays, aborted, outcomes, parsed, result>>

Next ==
    \/ StartCall /\ UNCHANGED outerVars
    \/ (\E k \in 1..(maxRetries + 1) : TimeoutFire(k)) /\ UNCHANGED outerVars
    \/ (\E n \in ErrNames, f \in BOOLEAN : FetchReject(n, f)) /\ UNCHANGED outerVars
    \/ (\E s \in Statuses, ct \in ContentTypes, cl \in ContentLengths : FetchRespond(s, ct, cl))
          /\ UNCHANGED outerVars
    \/ (\E b \in ErrBodies : ErrBodyRead(b)) /\ UNCHANGED outerVars
    \/ (\E b \in OkBodies : BodyRead(b)) /\ UNCHANGED outerVars
    \/ (\E f \in BOOLEAN : BodyReadFail(f)) /\ UNCHANGED outerVars
    \/ BackoffElapsed /\ UNCHANGED outerVars

Spec == Init /\ [][Next]_vars

TypeOK ==
    /\ pc \in {"idle", "fetching", "errbody", "body", "backoff", "done"}
    /\ retryCount \in 0..maxRetries
    /\ attempts \in 0..(maxRetries + 1)
    /\ timers \subseteq 1..(maxRetries + 1)
    /\ aborted \subseteq 1..(maxRetries + 1)
    /\ parsed \in BOOLEAN
    /\ result.tag \in {"none", "success", "failure"}

----------------------------------------------------------------------------
(* The single-entity operations of the facade in front of the engine *)

\* Inputs of the facade calls
BlankOrOk == {"ok", "blank"}
Checked == {"absent", "valid", "invalid"}

Items ==
    {DefaultItem,
     [DefaultItem EXCEPT !.id = "blank"],
     [DefaultItem EXCEPT !.title = "blank"],
     [DefaultItem EXCEPT !.startDate = [form |-> "Z", t |-> 1]],
     [DefaultItem EXCEPT !.startDate = [form |-> "invalid", t |-> 1]],
     [DefaultItem EXCEPT !.startDate = [form |-> "number", t |-> 1]],
     [DefaultItem EXCEPT !.timeZone = "invalid"]}

ItemLists == UNION {[1..n -> Items] : n \in 1..MaxItems}

TaskArgs ==
    {[DefaultArgs EXCEPT !.startDate = s, !.dueDate = d] : s \in Dates, d \in Dates}
    \cup {[DefaultArgs EXCEPT !.title = x, !.projectId = y, !.id = z, !.taskId = w] :
            x \in BlankOrOk, y \in BlankOrOk, z \in BlankOrOk, w \in BlankOrOk}
    \cup {[DefaultArgs EXCEPT !.timeZone = z, !.priority = q] : z \in Checked, q \in Priorities}
    \cup {[DefaultArgs EXCEPT !.items = l] : l \in ItemLists}

ProjectArgs ==
    {[DefaultArgs EXCEPT !.name = n, !.projectId = y] :
        n \in {"ok", "blank", "absent"}, y \in BlankOrOk}
    \cup {[DefaultArgs EXCEPT !.color = c, !.viewMode = v, !.kind = k] :
            c \in Checked, v \in Checked, k \in Checked}

ArgsOf(o) ==
    CASE o \in {"createTask", "updateTask"} -> TaskArgs
      [] o \in {"createProject", "updateProject"} -> ProjectArgs
      [] OTHER -> {DefaultArgs}

\* Responses the remote service gives in the facade specification
FacadeStatuses == {200, 404, 503}
FacadeContentTypes == {"application/json", "absent"}

\* A facade method is called: it validates its arguments and throws the
\* validation error, or builds the request and calls the engine with it.
FacadeCall(o, a) ==
    LET v == Validate(o, a) IN
    /\ pc = "idle"
    /\ op' = o
    /\ args' = a
    /\ applied' = FALSE
    /\ UNCHANGED taskStatus
    /\ created' = 0
    /\ IF v # Passed
       THEN /\ pc' = "done"
            /\ result' = TickTickValidationError(v)
            /\ retryCount' = 0
            /\ attempts' = 0
            /\ delays' = <<>>
            /\ timers' = {}
            /\ aborted' = {}
            /\ resp' = NoResp
            /\ outcomes' = <<>>
            /\ errorDetails' = "null"
            /\ text' = "none"
            /\ parsed' = FALSE
            /\ request' = NoRequest
            /\ sent' = {}
       ELSE /\ StartCall
            /\ request' = RequestOf(o, a)
            /\ sent' = {RequestOf(o, a)}

\* The promise of the facade method has settled and its caller has taken the
\* value or the error: the client is idle again.
FacadeReturn ==
    /\ pc = "done"
    /\ pc' = "idle"
    /\ retryCount' = 0
    /\ attempts' = 0
    /\ delays' = <<>>
    /\ timers' = {}
    /\ aborted' = {}
    /\ resp' = NoResp
    /\ outcomes' = <<>>
    /\ errorDetails' = "null"
    /\ text' = "none"
    /\ parsed' = FALSE
    /\ result' = NoResult
    /\ op' = "none"
    /\ args' = DefaultArgs
    /\ request' = NoRequest
    /\ sent' = {}
    /\ applied' = FALSE
    /\ UNCHANGED taskStatus
    /\ created' = 0

\* The remote service processes the request of the attempt in flight.
RemoteApply ==
    /\ pc = "fetching"
    /\ ~applied
    /\ applied' = TRUE
    /\ taskStatus' = RemoteEffect(request, taskStatus)
    /\ UNCHANGED <<engineVars, op, args, request, sent>>

\* SpecFacade follows the status of the one task and keeps no count of the
\* entities created; SpecCreate counts them.
RemoteProcess == RemoteApply /\ UNCHANGED created

RemoteProcessCounted == RemoteApply /\ created' = created + RemoteCreates(request)

\* The response of the remote service arrives; a 2xx answers a request that
\* was processed.
FacadeRespond(s, ct) ==
    /\ IsOk(s) => applied
    /\ FetchRespond(s, ct, "absent")
    /\ UNCHANGED facadeVars

\* The recursive invocation passes endpoint and options on as they are.
FacadeRetry ==
    /\ BackoffElapsed
    /\ sent' = sent \cup {request}
    /\ applied' = FALSE
    /\ UNCHANGED <<op, args, request, taskStatus, created>>

NextFacade ==
    \/ (\E o \in Ops : \E a \in ArgsOf(o) : FacadeCall(o, a)) /\ UNCHANGED <<aggVars, other, util>>
    \/ FacadeReturn /\ UNCHANGED <<aggVars, other, util>>
    \/ RemoteProcess /\ UNCHANGED <<aggVars, other, util>>
    \/ (\E s \in FacadeStatuses, ct \in FacadeContentTypes : FacadeRespond(s, ct))
          /\ UNCHANGED <<aggVars, other, util>>
    \/ (\E k \in 1..(maxRetries + 1) : TimeoutFire(k)) /\ UNCHANGED outerVars
    \/ (\E n \in ErrNames : FetchReject(n, FALSE)) /\ UNCHANGED outerVars
    \/ ErrBodyRead("json_other") /\ UNCHANGED outerVars
    \/ (\E b \in {"json", "malformed"} : BodyRead(b)) /\ UNCHANGED outerVars
    \/ BodyReadFail(FALSE) /\ UNCHANGED outerVars
    \/ FacadeRetry /\ UNCHANGED <<aggVars, other, util>>

SpecFacade == Init /\ [][NextFacade]_vars

-----------------------------------------------------------------------------
(* The create operations of the facade with the count of entities created *)

CreateOps == {"createTask", "createProject"}

CreateArgs == {DefaultArgs, [DefaultArgs EXCEPT !.title = "blank", !.name = "blank"]}

NextCreate ==
    \/ (\E o \in CreateOps : \E a \in CreateArgs : FacadeCall(o, a)) /\ UNCHANGED <<aggVars, other, util>>
    \/ FacadeReturn /\ UNCHANGED <<aggVars, other, util>>
    \/ RemoteProcessCounted /\ UNCHANGED <<aggVars, other, util>>
    \/ (\E s \in FacadeStatuses, ct \in FacadeContentTypes : FacadeRespond(s, ct))
          /\ UNCHANGED <<aggVars, other, util>>
    \/ (\E k \in 1..(maxRetries + 1) : TimeoutFire(k)) /\ UNCHANGED outerVars
    \/ (\E n \in ErrNames, f \in BOOLEAN : FetchReject(n, f)) /\ UNCHANGED outerVars
    \/ ErrBodyRead("json_other") /\ UNCHANGED outerVars
    \/ (\E b \in {"json", "malformed"} : BodyRead(b)) /\ UNCHANGED outerVars
    \/ BodyReadFail(FALSE) /\ UNCHANGED outerVars
    \/ FacadeRetry /\ UNCHANGED <<aggVars, other, util>>

SpecCreate == Init /\ [][NextCreate]_vars

-----------------------------------------------------------------------------
(* The aggregate operations over the engine *)

MaxProjects == 3

AggOps == {"getAllProjectsWithTasks", "stats"}

AggStatuses == {200, 404, 503}
AggContentTypes == {"application/json", "absent"}

\* Mutant: the loop does not wait for the promise of the call it made.
AwaitNotWaiting(p) == TRUE

\* await: the caller resumes when the promise of the logical call has settled.
Await(p) == p = "done"

\* What the loop body sees of the data call of one project: the data with its
\* tasks, a value without tasks (undefined, or JSON that has no tasks array:
\* reading projectData.tasks throws inside the try), or the rejection.
FetchOutcome(r, hasTasks) ==
    IF r.tag = "success"
    THEN IF r.value = "json" /\ hasTasks THEN "data" ELSE "nodata"
    ELSE "failure"

\* projectsWithData.push({...projectData, tasks: truncatedTasks})
DataEntry(i) == [project |-> i, tasks |-> "truncated", columns |-> "data"]

\* projectsWithData.push({project: project, tasks: [], columns: []})
PlaceholderEntry(i) == [project |-> i, tasks |-> "empty", columns |-> "empty"]

\* projectStats.push({projectId, projectName, totalTasks, ...})
StatsEntry(i) == [project |-> i, tasks |-> "counted", columns |-> "none"]

\* Mutant: the catch of the loop body only logs, whatever the operation.
AfterCatchSkip(o, es, i) == es

\* The catch of the loop body: getAllProjectsWithTasks pushes the placeholder,
\* the stats handler only logs.
AfterCatch(o, es, i) ==
    IF o = "getAllProjectsWithTasks" THEN Append(es, PlaceholderEntry(i)) ELSE es

\* The try of the loop body when the data has its tasks.
AfterTry(o, es, i) ==
    IF o = "getAllProjectsWithTasks" THEN Append(es, DataEntry(i)) ELSE Append(es, StatsEntry(i))

\* An error leaves the operation: getAllProjectsWithTasks has no handler
\* around the listing and the loop, the stats handler turns whatever it
\* catches into the text of the resource.
AggFail(o, error) ==
    /\ aggPc' = IF o = "stats" THEN "returned" ELSE "threw"
    /\ aggResult' = IF o = "stats" THEN "errorText" ELSE error

\* How the engine's steps move the number of fetches in flight.
EngineInAggregate ==
    /\ inflight' = IF pc = "fetching" /\ pc' # "fetching" THEN inflight - 1
                   ELSE IF pc = "backoff" /\ pc' = "fetching" THEN inflight + 1
                   ELSE inflight
    /\ UNCHANGED <<aggOp, aggPc, listing, projects, idx, entries, requested, fetched, aggResult>>

\* const projects = await this.getProjects(): the listing call is made.
AggStart(o) ==
    /\ aggPc = "idle"
    /\ pc = "idle"
    /\ aggOp' = o
    /\ aggPc' = "listing"
    /\ IssueFirstAttempt
    /\ inflight' = inflight + 1
    /\ UNCHANGED <<listing, projects, idx, entries, requested, fetched, aggResult>>

\* The listing call has settled.  A rejection leaves the operation; so does
\* the TypeError of "for (const project of projects)" when the call resolved
\* with undefined (a 2xx answer the engine takes as having no content).  With
\* a list of n projects the loop starts: the data call of the first project
\* is made, or the empty result is returned.
AggListed(n) ==
    /\ aggPc = "listing"
    /\ Await(pc)
    /\ listing' = IF result.tag = "success" THEN "success" ELSE "failure"
    /\ IF result.tag # "success"
       THEN /\ AggFail(aggOp, "TickTickApiError")
            /\ UNCHANGED <<engineVars, projects, idx, requested, inflight>>
       ELSE IF result.value # "json"
       THEN /\ AggFail(aggOp, "TypeError")
            /\ UNCHANGED <<engineVars, projects, idx, requested, inflight>>
       ELSE /\ projects' = n
            /\ IF n = 0
               THEN /\ aggPc' = "returned"
                    /\ aggResult' = aggOp
                    /\ UNCHANGED <<engineVars, idx, requested, inflight>>
               ELSE /\ aggPc' = "project"
                    /\ idx' = 1
                    /\ requested' = <<1>>
                    /\ IssueFirstAttempt
                    /\ inflight' = inflight + 1
                    /\ UNCHANGED aggResult
    /\ UNCHANGED <<aggOp, entries, fetched>>

\* The data call of project idx has settled: the body of the loop pushes its
\* entry (or only logs), then the loop makes the data call of the next
\* project or the operation returns.
AggProjectDone(hasTasks) ==
    LET outcome == FetchOutcome(result, hasTasks) IN
    /\ aggPc = "project"
    /\ Await(pc)
    /\ fetched' = Append(fetched, outcome)
    /\ entries' = IF outcome = "data"
                  THEN AfterTry(aggOp, entries, idx)
                  ELSE AfterCatch(aggOp, entries, idx)
    /\ IF idx < projects
       THEN /\ idx' = idx + 1
            /\ requested' = Append(requested, idx + 1)
            /\ IssueFirstAttempt
            /\ inflight' = inflight + 1
            /\ UNCHANGED <<aggPc, aggResult>>
       ELSE /\ aggPc' = "returned"
            /\ aggResult' = aggOp
            /\ UNCHANGED <<engineVars, idx, requested, inflight>>
    /\ UNCHANGED <<aggOp, listing, projects>>

NextAggregate ==
    \/ (\E o \in AggOps : AggStart(o)) /\ UNCHANGED <<facadeVars, other, util>>
    \/ (\E n \in 0..MaxProjects : AggListed(n)) /\ UNCHANGED <<facadeVars, other, util>>
    \/ (\E t \in BOOLEAN : AggProjectDone(t)) /\ UNCHANGED <<facadeVars, other, util>>
    \/ (\E k \in 1..(maxRetries + 1) : TimeoutFire(k)) /\ EngineInAggregate
          /\ UNCHANGED <<facadeVars, other, util>>
    \/ (\E n \in ErrNames : FetchReject(n, FALSE)) /\ EngineInAggregate
          /\ UNCHANGED <<facadeVars, other, util>>
    \/ (\E s \in AggStatuses, ct \in AggContentTypes : FetchRespond(s, ct, "absent"))
          /\ EngineInAggregate /\ UNCHANGED <<facadeVars, other, util>>
    \/ ErrBodyRead("json_other") /\ EngineInAggregate /\ UNCHANGED <<facadeVars, other, util>>
    \/ BodyRead("json") /\ EngineInAggregate /\ UNCHANGED <<facadeVars, other, util>>
    \/ BodyReadFail(FALSE) /\ EngineInAggregate /\ UNCHANGED <<facadeVars, other, util>>
    \/ BackoffElapsed /\ EngineInAggregate /\ UNCHANGED <<facadeVars, other, util>>

SpecAggregate == Init /\ [][NextAggregate]_vars

-----------------------------------------------------------------------------
(* A second logical call on the same client *)

\* How an attempt of the second call ends: an answer with this status, or the
\* abort of its own timer.
OtherOutcomes == {"200", "404", "429", "503", "timeout"}

StatusOf(outcome) ==
    CASE outcome = "200" -> 200
      [] outcome = "404" -> 404
      [] outcome = "429" -> 429
      [] outcome = "503" -> 503
      [] OTHER -> NoStatus

\* Mutant: the retry counter is a field of the client, shared by its calls.
RetryCountOfShared(call) == retryCount

\* retryCount is a parameter of makeAuthenticatedRequest: every logical call
\* counts its own retries.
RetryCountOf(call) == call.retryCount

\* Another facade method is called while the first call may be running.
OtherStart ==
    /\ other.pc \in {"idle", "done"}
    /\ other' = [IdleCall EXCEPT !.pc = "fetching", !.attempts = 1]

\* An attempt of the second call ends: it returns the parsed body, or builds
\* its error and retries after the backoff or throws.
OtherAttemptEnds(outcome) ==
    LET rc == RetryCountOf(other)
        status == StatusOf(outcome)
        apiError == IF outcome = "timeout"
                    THEN ClassifyRaw("AbortError", FALSE)
                    ELSE FromHttpStatus(status, "json")
        retry == IF outcome = "timeout"
                 THEN apiError.retryable
                 ELSE ShouldRetry(apiError, status, "json")
    IN
    /\ other.pc = "fetching"
    /\ other' = IF IsOk(status)
                THEN [other EXCEPT !.pc = "done",
                                   !.outcomes = Append(@, outcome),
                                   !.result = Success("json")]
                ELSE IF retry /\ rc < maxRetries
                THEN [other EXCEPT !.pc = "backoff",
                                   !.outcomes = Append(@, outcome),
                                   !.delays = Append(@, RetryDelay(rc))]
                ELSE [other EXCEPT !.pc = "done",
                                   !.outcomes = Append(@, outcome),
                                   !.result = apiError]

\* The backoff sleep of the second call ends.
OtherBackoffElapsed ==
    /\ other.pc = "backoff"
    /\ other' = [other EXCEPT !.pc = "fetching",
                              !.retryCount = RetryCountOf(other) + 1,
                              !.attempts = @ + 1]

NextConcurrent ==
    \/ StartCall /\ UNCHANGED outerVars
    \/ (\E k \in 1..(maxRetries + 1) : TimeoutFire(k)) /\ UNCHANGED outerVars
    \/ (\E n \in ErrNames : FetchReject(n, FALSE)) /\ UNCHANGED outerVars
    \/ (\E s \in AggStatuses : FetchRespond(s, "application/json", "absent"))
          /\ UNCHANGED outerVars
    \/ ErrBodyRead("json_other") /\ UNCHANGED outerVars
    \/ BodyRead("json") /\ UNCHANGED outerVars
    \/ BodyReadFail(FALSE) /\ UNCHANGED outerVars
    \/ BackoffElapsed /\ UNCHANGED outerVars
    \/ OtherStart /\ UNCHANGED <<engineVars, facadeVars, aggVars, util>>
    \/ (\E o \in OtherOutcomes : OtherAttemptEnds(o)) /\ UNCHANGED <<engineVars, facadeVars, aggVars, util>>
    \/ OtherBackoffElapsed /\ UNCHANGED <<engineVars, facadeVars, aggVars, util>>

SpecConcurrent == Init /\ [][NextConcurrent]_vars

-----------------------------------------------------------------------------
(* The utility functions applied to their inputs, one application a run *)

MapPriority(n) ==
    /\ util.fn = "none"
    /\ util' = [fn |-> "PRIORITY_MAP", input |-> n, output |-> PRIORITY_MAP(n)]

\* The name of an ordinal, and whether validatePriority accepts the ordinal
\* (createTask and updateTask throw a validation error when it does not).
ReverseMapPriority(o) ==
    /\ util.fn = "none"
    /\ util' = [fn |-> "PRIORITY_REVERSE_MAP", input |-> o,
             output |-> [name |-> PRIORITY_REVERSE_MAP(o), accepted |-> ValidatePriority(o)]]

ApplyValidateRRule(r) ==
    /\ util.fn = "none"
    /\ util' = [fn |-> "validateRRule", input |-> r, output |-> ValidateRRule(r)]

ApplyValidateDateRange(startDate, dueDate) ==
    /\ util.fn = "none"
    /\ util' = [fn |-> "validateDateRange", input |-> <<startDate, dueDate>>,
             output |-> ValidateDateRange(startDate, dueDate)]

\* iso8601ToTimestamp(timestampToISO8601(t)); a throw of the first function
\* leaves no text to hand to the second.
ApplyTimestampRoundTrip(t) ==
    LET wire == TimestampToISO8601(t) IN
    /\ util.fn = "none"
    /\ util' = [fn |-> "roundTrip", input |-> t,
             output |-> [wire |-> wire,
                         back |-> IF wire = FormatFailed THEN NoTimestamp
                                  ELSE Iso8601ToTimestamp(wire)]]

NextUtils ==
    \/ (\E n \in PriorityNames : MapPriority(n)) /\ UNCHANGED <<engineVars, facadeVars, aggVars, other>>
    \/ (\E o \in Ordinals : ReverseMapPriority(o)) /\ UNCHANGED <<engineVars, facadeVars, aggVars, other>>
    \/ (\E r \in Rules : ApplyValidateRRule(r)) /\ UNCHANGED <<engineVars, facadeVars, aggVars, other>>
    \/ (\E sd \in Dates, dd \in Dates : ApplyValidateDateRange(sd, dd))
          /\ UNCHANGED <<engineVars, facadeVars, aggVars, other>>
    \/ (\E t \in Timestamps : ApplyTimestampRoundTrip(t))
          /\ UNCHANGED <<engineVars, facadeVars, aggVars, other>>

SpecUtils == Init /\ [][NextUtils]_vars

-----------------------------------------------------------------------------
(* The engine under the scheduling the runtime gives it *)

NextLive ==
    \/ StartCall /\ UNCHANGED outerVars
    \/ (\E k \in 1..(maxRetries + 1) : TimeoutFire(k)) /\ UNCHANGED outerVars
    \/ (\E n \in ErrNames : FetchReject(n, FALSE)) /\ UNCHANGED outerVars
    \/ (\E s \in AggStatuses, ct \in AggContentTypes : FetchRespond(s, ct, "absent"))
          /\ UNCHANGED outerVars
    \/ ErrBodyRead("json_other") /\ UNCHANGED outerVars
    \/ BodyRead("json") /\ UNCHANGED outerVars
    \/ BodyReadFail(FALSE) /\ UNCHANGED outerVars
    \/ BackoffElapsed /\ UNCHANGED outerVars

\* A fetch in flight settles: the remote side answers or fails it, or the
\* timer of the attempt fires and aborts it.
FetchSettles ==
    \/ \E k \in 1..(maxRetries + 1) : TimeoutFire(k)
    \/ \E n \in ErrNames : FetchReject(n, FALSE)
    \/ \E s \in AggStatuses, ct \in AggContentTypes : FetchRespond(s, ct, "absent")

\* The timers of the runtime fire: a fetch in flight settles and a backoff
\* sleep ends.  Nothing makes the read of a body end: the timer of the
\* attempt is cleared before response.text() is awaited.
SpecLive ==
    /\ Init
    /\ [][NextLive]_vars
    /\ WF_vars(FetchSettles /\ UNCHANGED outerVars)
    /\ WF_vars(BackoffElapsed /\ UNCHANGED outerVars)

----------------------------------------------------------------------------
(* Properties of the request engine *)

\* The attempt that just ended is the latest one issued (the call is in its
\* backoff sleep or has finished).
AttemptEnded == attempts > 0 /\ Len(outcomes) = attempts
LastOutcome == outcomes[Len(outcomes)]
AllOutcomesAre(t) == Len(outcomes) > 0 /\ \A i \in 1..Len(outcomes) : outcomes[i] = t

\* C1: a logical call makes at most 4 attempts (1 + 3 retries); the wait before
\* retry k (k = 0, 1, 2) is exactly min(1000 * 2^k, 10000) ms, that is 1000,
\* 2000, 4000, and every attempt after the first follows exactly one wait.
C1_BoundedAttemptsFixedBackoff ==
    /\ attempts <= 4
    /\ Len(delays) <= 3
    /\ \A k \in 1..Len(delays) : delays[k] = <<1000, 2000, 4000>>[k]
    /\ pc \in {"fetching", "errbody", "body"} => attempts = Len(delays) + 1
    /\ pc = "backoff" => attempts = Len(delays)
    /\ pc = "done" => attempts = Len(delays) + 1

C1_Witness == pc = "done" /\ attempts = 4 /\ delays = <<1000, 2000, 4000>>

\* C2: when every attempt is answered with 429, the call ends only after 4
\* attempts and the waits 1000, 2000, 4000, and it ends as the RATE_LIMITED
\* failure with status 429.
C2_RateLimitedExhaustsRetries ==
    (pc = "done" /\ AllOutcomesAre("429")) =>
        /\ attempts = 4
        /\ delays = <<1000, 2000, 4000>>
        /\ result.tag = "failure"
        /\ result.kind = "RATE_LIMITED"
        /\ result.status = 429

C2_Witness == pc = "done" /\ outcomes = <<"429", "429", "429", "429">>

\* C3: a call whose first attempt is answered with 401, 403, 404 or another
\* status outside {429, 500, 502, 503, 504} ends with that attempt, without any
\* wait, as the failure of the mapped kind.
C3_NonRetryableStatusFailsAtOnce ==
    (Len(outcomes) >= 1 /\ outcomes[1] \in {"400", "401", "403", "404"}) =>
        /\ pc = "done"
        /\ attempts = 1
        /\ Len(outcomes) = 1
        /\ delays = <<>>
        /\ result.tag = "failure"
        /\ ToString(result.status) = outcomes[1]
        /\ result.kind = (CASE outcomes[1] = "401" -> "UNAUTHORIZED"
                            [] outcomes[1] = "403" -> "FORBIDDEN"
                            [] outcomes[1] = "404" -> "NOT_FOUND"
                            [] OTHER -> "SERVER_ERROR")

C3_Witness == pc = "done" /\ outcomes = <<"404">> /\ result.kind = "NOT_FOUND"

\* C4: an attempt answered with 500 and errorCode "unknown_exception" ends the
\* call whatever the retry count; a 500 without that code is followed by the
\* backoff while fewer than 3 retries have been made.
C4_UnknownExceptionNeverRetried ==
    (AttemptEnded /\ LastOutcome = "500") =>
        IF errorDetails = "unknown_exception"
        THEN pc = "done" /\ result.tag = "failure" /\ result.status = 500
        ELSE IF retryCount < 3
        THEN pc = "backoff" /\ Len(delays) = retryCount + 1
        ELSE pc = "done"

C4_Witness ==
    /\ pc = "done"
    /\ outcomes = <<"500", "500">>
    /\ delays = <<1000>>
    /\ errorDetails = "unknown_exception"

C6_TimeoutCancelsOnlyInFlightAttempt ==
    /\ timers \subseteq (IF pc = "fetching" THEN {attempts} ELSE {})
    /\ \A k \in aborted :
          IF k <= Len(outcomes) THEN outcomes[k] = "timeout"
          ELSE k = attempts /\ pc = "fetching"
    /\ (Len(outcomes) = 4 /\ outcomes[4] = "timeout") =>
          /\ pc = "done"
          /\ result.tag = "failure"
          /\ result.kind = "TIMEOUT_ERROR"
    /\ (pc = "done" /\ Len(outcomes) > 0 /\ LastOutcome = "timeout") =>
          result.tag = "failure" /\ result.kind = "TIMEOUT_ERROR"

C6_Witness ==
    /\ pc = "done"
    /\ outcomes = <<"503", "network", "429", "timeout">>
    /\ aborted = {4}
    /\ result.kind = "TIMEOUT_ERROR"

\* C7: the failure surfaced for an HTTP status carries that status, and its
\* kind and retryable flag follow the table 401 UNAUTHORIZED, 403 FORBIDDEN,
\* 404 NOT_FOUND (not retryable), 429 RATE_LIMITED (retryable), 500/502/503/504
\* SERVER_ERROR (retryable), any other status SERVER_ERROR (not retryable).
C7_StatusTable ==
    (pc = "done" /\ result.tag = "failure" /\ result.status # NoStatus) =>
        /\ ToString(result.status) = LastOutcome
        /\ result.status = 401 => result.kind = "UNAUTHORIZED" /\ ~result.retryable
        /\ result.status = 403 => result.kind = "FORBIDDEN" /\ ~result.retryable
        /\ result.status = 404 => result.kind = "NOT_FOUND" /\ ~result.retryable
        /\ result.status = 429 => result.kind = "RATE_LIMITED" /\ result.retryable
        /\ result.status \in {500, 502, 503, 504} =>
              result.kind = "SERVER_ERROR" /\ result.retryable
        /\ result.status \notin {401, 403, 404, 429, 500, 502, 503, 504} =>
              result.kind = "SERVER_ERROR" /\ ~result.retryable

C7_Witness ==
    /\ pc = "done"
    /\ outcomes = <<"429", "504", "network", "502">>
    /\ result.status = 502
    /\ result.kind = "SERVER_ERROR"

\* C8: the failure surfaced for a 500 response that carries errorCode
\* "unknown_exception" is a SERVER_ERROR whose retryable flag is false.
C8_PermanentServerErrorNotRetryable ==
    (pc = "done" /\ result.tag = "failure" /\ result.status = 500
        /\ result.details = "unknown_exception") =>
        result.kind = "SERVER_ERROR" /\ ~result.retryable

\* C9: a logical call ends in a success value or in a TickTickApiError whose
\* code is set and whose retryable flag is exposed; it carries a status exactly
\* when an HTTP response produced it.  No other error leaves the engine.
C9_TypedOutcomes ==
    /\ (pc = "done") <=> (result.tag \in {"success", "failure"})
    /\ result.tag = "success" => result.value \in {"empty", "json"}
    /\ result.tag = "failure" =>
          /\ result.typed
          /\ result.kind \in TickTickErrorCode
          /\ result.retryable \in BOOLEAN
          /\ (result.status = NoStatus) <=> (result.kind \in {"NETWORK_ERROR", "TIMEOUT_ERROR"})

C9_Witness ==
    /\ pc = "done"
    /\ LastOutcome \in {"error", "bodyfail"}
    /\ result.tag = "failure"
    /\ ~result.retryable

\* C10 as stated: a 2xx response whose body is empty or whose content type is
\* not JSON yields the empty result without any JSON parse.
C10_EmptyOrNonJsonNeverParsed ==
    (pc = "done" /\ IsOk(resp.status)
        /\ (text \in {"empty", "blank"} \/ resp.contentType # "application/json")) =>
        /\ result = Success("empty")
        /\ ~parsed

\* C10 amended: a 2xx response whose body is empty or blank, whose status is
\* 204, whose Content-Length is 0, or whose content type is neither JSON nor
\* text/*, yields the empty result without any JSON parse.
C10_EmptyOrNonTextNeverParsed ==
    (pc = "done" /\ IsOk(resp.status)
        /\ \/ text \in {"empty", "blank"}
           \/ resp.status = 204
           \/ resp.contentLength = "0"
           \/ resp.contentType \notin {"application/json", "text/plain"}) =>
        /\ result = Success("empty")
        /\ ~parsed

C10_Witness ==
    /\ pc = "done"
    /\ resp.status = 200
    /\ resp.contentType = "application/octet-stream"
    /\ resp.contentLength = "n"
    /\ result = Success("empty")

\* C11 as stated: a 2xx response with a non-empty JSON body that cannot be
\* parsed ends the call with a failure of a kind of its own
\* (ResponseParseError) that is not retryable.
C11_ParseFailureOwnKind ==
    (pc = "done" /\ parsed /\ text = "malformed") =>
        /\ result.tag = "failure"
        /\ result.kind \notin {"UNAUTHORIZED", "FORBIDDEN", "NOT_FOUND", "RATE_LIMITED",
                               "SERVER_ERROR", "NETWORK_ERROR", "VALIDATION_ERROR",
                               "TIMEOUT_ERROR"}
        /\ ~result.retryable

\* C11 amended: such a response ends the call, whatever the retry count, with
\* a TickTickApiError of code SERVER_ERROR that carries the 2xx status and the
\* parse error as details and is not retryable; no further attempt follows.
C11_ParseFailureEndsCall ==
    /\ (pc = "done" /\ parsed /\ text = "malformed") =>
          /\ result.tag = "failure"
          /\ result.kind = "SERVER_ERROR"
          /\ result.status = resp.status
          /\ IsOk(result.status)
          /\ result.details = "parseError"
          /\ ~result.retryable
          /\ attempts = Len(outcomes)
    /\ text = "malformed" => pc = "done" /\ parsed
    /\ parsed => pc = "done"

C11_Witness ==
    /\ pc = "done"
    /\ text = "malformed"
    /\ retryCount = 2
    /\ result.details = "parseError"

----------------------------------------------------------------------------
(* Properties of the facade *)

\* The arguments meet every constraint the facade checks, stated field by field.
DateAccepted(d) == d.form \notin {"invalid", "number"}
ZoneAccepted(z) == z \in {"absent", "valid"}
ItemsAccepted(l, isUpdate) ==
    \A i \in 1..Len(l) :
        /\ l[i].title = "ok"
        /\ isUpdate => l[i].id = "ok"
        /\ DateAccepted(l[i].startDate)
        /\ ZoneAccepted(l[i].timeZone)
TaskFieldsAccepted(a, isUpdate) ==
    /\ a.projectId = "ok"
    /\ DateAccepted(a.startDate)
    /\ DateAccepted(a.dueDate)
    /\ ZoneAccepted(a.timeZone)
    /\ a.priority \in {NoPriority, 0, 1, 3, 5}
    /\ ItemsAccepted(a.items, isUpdate)
ProjectFieldsAccepted(a) ==
    /\ a.color \in {"absent", "valid"}
    /\ a.viewMode \in {"absent", "valid"}
    /\ a.kind \in {"absent", "valid"}
ArgsAccepted ==
    CASE op = "createTask" -> args.title = "ok" /\ TaskFieldsAccepted(args, FALSE)
      [] op = "updateTask" ->
            args.taskId = "ok" /\ args.id = "ok" /\ TaskFieldsAccepted(args, TRUE)
      [] op = "createProject" -> args.name = "ok" /\ ProjectFieldsAccepted(args)
      [] op = "updateProject" ->
            args.projectId = "ok" /\ args.name # "blank" /\ ProjectFieldsAccepted(args)
      [] OTHER -> TRUE

\* C12: for createTask, updateTask, createProject and updateProject, arguments
\* that fail a check end the call with a VALIDATION_ERROR and no HTTP attempt;
\* every attempt is made with arguments that passed every check; a validation
\* error is not retryable and is followed by no wait and no attempt.
C12_ValidationBeforeNetwork ==
    op \in MutatingOps =>
        /\ ~ArgsAccepted =>
              /\ pc = "done"
              /\ result.tag = "failure"
              /\ result.kind = "VALIDATION_ERROR"
              /\ ~result.retryable
              /\ attempts = 0
              /\ sent = {}
              /\ delays = <<>>
              /\ ~applied
        /\ (attempts > 0 \/ sent # {}) => ArgsAccepted
        /\ result.kind = "VALIDATION_ERROR" => (attempts = 0 /\ ~ArgsAccepted)

C12_Witness ==
    /\ op = "createTask"
    /\ args.priority = 2
    /\ pc = "done"
    /\ result.kind = "VALIDATION_ERROR"
    /\ attempts = 0

\* C13: a createTask whose startDate is after its dueDate (both valid) ends
\* with a VALIDATION_ERROR and no request is sent.
C13_StartAfterDueRejected ==
    (/\ op = "createTask"
     /\ args.startDate # NoDate /\ DateAccepted(args.startDate)
     /\ args.dueDate # NoDate /\ DateAccepted(args.dueDate)
     /\ args.startDate.t > args.dueDate.t) =>
        /\ pc = "done"
        /\ result.kind = "VALIDATION_ERROR"
        /\ attempts = 0
        /\ sent = {}

\* C18: the status of the task goes from Normal (0) to Completed (2) only by
\* completeTask; from Completed it never returns to Normal, whatever operation
\* runs (updateTask included); only deleteTask removes the task, and it does so
\* from either status.
C18_TaskLifecycle ==
    [][/\ taskStatus = TaskStatusCompleted =>
            taskStatus' \in {TaskStatusCompleted, TaskAbsent}
       /\ (taskStatus = TaskStatusNormal /\ taskStatus' = TaskStatusCompleted) =>
            op = "completeTask"
       /\ (taskStatus # TaskAbsent /\ taskStatus' = TaskAbsent) => op = "deleteTask"
       /\ (op = "deleteTask" /\ ~applied /\ applied') => taskStatus' = TaskAbsent
      ]_vars

C18_Witness ==
    /\ op = "updateTask"
    /\ taskStatus = TaskStatusCompleted
    /\ applied
    /\ pc = "done"
    /\ result.tag = "success"

\* C19: every request of a facade call, first attempt and retries alike, has
\* the method and the path template of its operation.
C19_Expected(m, p) == \A r \in sent : r.method = m /\ r.path = p
C19_FixedMethodAndPath ==
    /\ Cardinality(sent) <= 1
    /\ attempts > 0 => sent = {request}
    /\ op = "getProjects" => C19_Expected("GET", "/project")
    /\ op = "getProject" => C19_Expected("GET", "/project/{projectId}")
    /\ op = "getProjectWithData" => C19_Expected("GET", "/project/{projectId}/data")
    /\ op = "createProject" => C19_Expected("POST", "/project")
    /\ op = "updateProject" => C19_Expected("POST", "/project/{projectId}")
    /\ op = "deleteProject" => C19_Expected("DELETE", "/project/{projectId}")
    /\ op = "getTask" => C19_Expected("GET", "/project/{projectId}/task/{taskId}")
    /\ op = "createTask" => C19_Expected("POST", "/task")
    /\ op = "updateTask" => C19_Expected("POST", "/task/{taskId}")
    /\ op = "completeTask" =>
          C19_Expected("POST", "/project/{projectId}/task/{taskId}/complete")
    /\ op = "deleteTask" => C19_Expected("DELETE", "/project/{projectId}/task/{taskId}")

C19_Witness ==
    /\ op = "completeTask"
    /\ attempts = 3
    /\ pc = "fetching"
    /\ sent = {[method |-> "POST", path |-> "/project/{projectId}/task/{taskId}/complete",
                body |-> NoBody]}

\* C20: in every createTask or updateTask request that reaches the network,
\* startDate, dueDate and the startDate of each checklist item, when present,
\* are in numeric-offset form: none ends in "Z".
C20_WireForm(d) == d.form \in {"absent", "offset", "millisOffset"}
C20_NoBareZOnWire ==
    \A r \in sent :
        (op \in {"createTask", "updateTask"}) =>
            /\ r.body.present
            /\ C20_WireForm(r.body.startDate)
            /\ C20_WireForm(r.body.dueDate)
            /\ Len(r.body.itemDates) = Len(args.items)
            /\ \A i \in 1..Len(r.body.itemDates) : C20_WireForm(r.body.itemDates[i])
            /\ r.body.startDate.t = args.startDate.t
            /\ r.body.dueDate.t = args.dueDate.t

C20_Witness ==
    /\ op = "createTask"
    /\ args.startDate = [form |-> "Z", t |-> 1]
    /\ args.dueDate = [form |-> "millisZ", t |-> 2]
    /\ attempts = 2
    /\ \E r \in sent : r.body.startDate = [form |-> "offset", t |-> 1]

-----------------------------------------------------------------------------
(* Properties of the aggregate operations *)

\* C14: once getProjects has returned its list, getAllProjectsWithTasks builds
\* exactly one entry per listed project, in listing order; the entry of a
\* project whose data call failed is that project with empty tasks and empty
\* columns, and the operation returns: it does not throw.
C14_OneEntryPerListedProject ==
    (aggOp = "getAllProjectsWithTasks" /\ projects # NoList) =>
        /\ aggPc # "threw"
        /\ Len(entries) = Len(fetched)
        /\ aggPc = "returned" => Len(entries) = projects /\ aggResult = aggOp
        /\ \A i \in 1..Len(entries) :
              /\ entries[i].project = i
              /\ fetched[i] = "failure" =>
                    entries[i].tasks = "empty" /\ entries[i].columns = "empty"

\* Three projects listed, the data call of the second fails, the result has
\* three entries.
C14_Witness ==
    /\ aggOp = "getAllProjectsWithTasks"
    /\ aggPc = "returned"
    /\ projects = 3
    /\ fetched = <<"data", "failure", "data">>
    /\ entries = <<DataEntry(1), PlaceholderEntry(2), DataEntry(3)>>

\* C15: an aggregate operation fails only if the listing call fails, and a
\* failed listing is followed by no per-project request.
C15_FailsOnlyIfListingFails ==
    /\ aggResult \in {"TickTickApiError", "TypeError", "errorText"} => listing = "failure"
    /\ listing = "failure" => requested = <<>>

-----------------------------------------------------------------------------
(* Properties of concurrent logical calls *)

\* The first call, seen as the second one is kept.
FirstCall == [pc |-> pc, attempts |-> attempts, delays |-> delays, outcomes |-> outcomes]

\* The attempts and waits of a call follow from the attempts of that call
\* alone: each of its ended attempts but the one that ends the call is
\* followed by one wait, the k-th wait being 1000, 2000, 4000.
OwnSchedule(call) ==
    /\ call.attempts <= maxRetries + 1
    /\ Len(call.delays) <= maxRetries
    /\ \A k \in 1..Len(call.delays) : call.delays[k] = <<1000, 2000, 4000>>[k]
    /\ call.pc \in {"fetching", "errbody", "body"} =>
          Len(call.delays) = Len(call.outcomes) /\ call.attempts = Len(call.outcomes) + 1
    /\ call.pc = "backoff" =>
          Len(call.delays) = Len(call.outcomes) /\ call.attempts = Len(call.outcomes)
    /\ call.pc = "done" =>
          Len(call.delays) = Len(call.outcomes) - 1 /\ call.attempts = Len(call.outcomes)

\* C17: with two logical calls in progress on one client, each call's attempt
\* count and backoff delays depend only on the outcomes of its own attempts, a
\* step of one call changes nothing of the other, and a call whose attempt is
\* in flight can complete with success whatever the other call is doing, its
\* backoff wait included.
C17_CallsIndependent ==
    /\ [](/\ OwnSchedule(FirstCall)
          /\ OwnSchedule(other)
          /\ other.pc = "fetching" => ENABLED OtherAttemptEnds("200")
          /\ (pc = "fetching" /\ attempts \notin aborted) =>
                ENABLED FetchRespond(200, "application/json", "absent"))
    /\ [][/\ other' # other => UNCHANGED engineVars
          /\ engineVars' # engineVars => other' = other]_vars

\* The second call has retried once and succeeded while the first call is in
\* its third backoff wait.
C17_Witness ==
    /\ pc = "backoff"
    /\ retryCount = 2
    /\ other.pc = "done"
    /\ other.result.tag = "success"
    /\ other.outcomes = <<"503", "200">>
    /\ other.delays = <<1000>>

-----------------------------------------------------------------------------
(* Properties of the utility functions *)

C23_FreqRequiredAndSupported ==
    util.fn = "validateRRule" =>
        /\ util.output => (util.input.prefix /\ util.input.freq \in SupportedFreq)
        /\ util.input = [DefaultRule EXCEPT !.interval = NumText("", 1, "")] => util.output

\* A positive integer in decimal digits.
IsPositiveInteger(t) == t.sign = "" /\ t.digits >= 1 /\ t.tail = ""

\* An integer in [-31,-1] or [1,31].
IsDayOfMonth(t) == t.digits >= 1 /\ t.digits <= 31 /\ t.tail = ""

\* C24: validateRRule rejects every rule whose INTERVAL or COUNT is present
\* and is not a positive integer, and every rule with a BYMONTHDAY entry that
\* is not an integer in [-31,-1] or [1,31].
C24_NumbersChecked ==
    (util.fn = "validateRRule" /\ util.output) =>
        /\ util.input.interval.present => IsPositiveInteger(util.input.interval)
        /\ util.input.count.present => IsPositiveInteger(util.input.count)
        /\ \A k \in 1..Len(util.input.bymonthday) : IsDayOfMonth(util.input.bymonthday[k])

\* C25 as stated: validateDateRange always yields a boolean, true when either
\* argument is absent, and otherwise false exactly when start is later than
\* due.
C25_AlwaysBoolean ==
    util.fn = "validateDateRange" =>
        LET startDate == util.input[1]
            dueDate == util.input[2]
        IN
        /\ util.output \in {"true", "false"}
        /\ (startDate = NoDate \/ dueDate = NoDate) => util.output = "true"
        /\ (startDate # NoDate /\ dueDate # NoDate) =>
              (util.output = "false" <=> startDate.t > dueDate.t)

\* C25: validateDateRange returns true when either argument is absent; with
\* both present and parseable it returns false exactly when start is later
\* than due (equal instants are valid); with both present and one that Date
\* cannot parse it throws.
C25_DateRange ==
    util.fn = "validateDateRange" =>
        LET startDate == util.input[1]
            dueDate == util.input[2]
        IN
        IF startDate = NoDate \/ dueDate = NoDate THEN util.output = "true"
        ELSE IF ParsesAsDate(startDate) /\ ParsesAsDate(dueDate)
        THEN /\ util.output \in {"true", "false"}
             /\ util.output = "false" <=> startDate.t > dueDate.t
        ELSE util.output = "throws"

\* Two texts of the same instant make a valid range.
C25_Witness ==
    /\ util.fn = "validateDateRange"
    /\ util.input = <<[form |-> "Z", t |-> 1], [form |-> "offset", t |-> 1]>>
    /\ util.output = "true"

-----------------------------------------------------------------------------
(* Properties of the validation errors *)

\* C22: every validation error of createTask, updateTask, createProject and
\* updateProject carries the details { field, value }, the errors for a
\* missing title, projectId, task id or project name included.
C22_ValidationErrorHasFieldAndValue ==
    (op \in MutatingOps /\ pc = "done" /\ result.kind = "VALIDATION_ERROR") =>
        result.details # "none"

ItemAccepted(item, isUpdate) == ItemsAccepted(<<item>>, isUpdate)

\* The checks made before the loop over the checklist items pass.
BeforeItemsAccepted ==
    /\ op = "createTask" => args.title = "ok"
    /\ op = "updateTask" => (args.taskId = "ok" /\ args.id = "ok")
    /\ TaskFieldsAccepted([args EXCEPT !.items = <<>>], op = "updateTask")

\* The position, counted from 0, of the first checklist item that is invalid.
FirstInvalidItem ==
    CHOOSE i \in 0..(Len(args.items) - 1) :
        /\ ~ItemAccepted(args.items[i + 1], op = "updateTask")
        /\ \A j \in 1..i : ItemAccepted(args.items[j], op = "updateTask")

\* C28: when the checklist-item loop of createTask or updateTask finds an
\* invalid item, the call ends with a validation error whose field is
\* items[i].<field> for the smallest index i of an invalid item, the items
\* before i having passed; on update an item without an id is invalid; in
\* every such case no request is sent.
C28_FirstInvalidItemReported ==
    (op \in {"createTask", "updateTask"} /\ BeforeItemsAccepted
        /\ ~ItemsAccepted(args.items, op = "updateTask")) =>
        LET v == Validate(op, args) IN
        /\ pc = "done"
        /\ result = TickTickValidationError(v)
        /\ result.kind = "VALIDATION_ERROR"
        /\ result.details \in {"items.id", "items.title", "items.startDate", "items.timeZone"}
        /\ v.index = FirstInvalidItem
        /\ (op = "updateTask" /\ args.items[v.index + 1].id # "ok") => v.field = "items.id"
        /\ attempts = 0
        /\ sent = {}
        /\ request = NoRequest

\* updateTask with a valid first item and a second item that has no id.
C28_Witness ==
    /\ op = "updateTask"
    /\ args.items = <<DefaultItem, [DefaultItem EXCEPT !.id = "blank"]>>
    /\ pc = "done"
    /\ result.kind = "VALIDATION_ERROR"
    /\ result.details = "items.id"
    /\ Validate(op, args).index = 1
    /\ sent = {}

-----------------------------------------------------------------------------
(* Properties of error propagation *)

\* The typed failure of the attempt that ended last, from what that attempt
\* saw: the abort or the network error of its fetch or body read, the parse
\* failure of its body, or the status and the decoded error body of its
\* response.
FailureOfFinalAttempt ==
    CASE LastOutcome = "timeout" ->
            [tag |-> "failure", typed |-> TRUE, kind |-> "TIMEOUT_ERROR", status |-> NoStatus,
             retryable |-> TRUE, details |-> "originalError", value |-> "none"]
      [] LastOutcome \in {"network", "error", "bodyfail"} ->
            [tag |-> "failure", typed |-> TRUE, kind |-> "NETWORK_ERROR", status |-> NoStatus,
             retryable |-> (LastOutcome = "network"), details |-> "originalError",
             value |-> "none"]
      [] OTHER ->
            IF IsOk(resp.status)
            THEN [tag |-> "failure", typed |-> TRUE, kind |-> "SERVER_ERROR",
                  status |-> resp.status, retryable |-> FALSE, details |-> "parseError",
                  value |-> "none"]
            ELSE [tag |-> "failure", typed |-> TRUE,
                  kind |-> IF resp.status = 404 THEN "NOT_FOUND" ELSE "SERVER_ERROR",
                  status |-> resp.status, retryable |-> (resp.status = 503),
                  details |-> errorDetails, value |-> "none"]

\* C27: the failure a single-entity operation of the facade ends with is the
\* typed failure of the final attempt of its logical call, with that
\* attempt's kind, status, retryable flag and details, whatever the earlier
\* attempts failed with.
C27_FinalFailureSurfaces ==
    (op \in Ops /\ pc = "done" /\ result.tag = "failure" /\ attempts > 0) =>
        /\ Len(outcomes) = attempts
        /\ result = FailureOfFinalAttempt

\* A 503, then a timeout, then a 404: the call ends as NOT_FOUND.
C27_Witness ==
    /\ op = "getTask"
    /\ pc = "done"
    /\ outcomes = <<"503", "timeout", "404">>
    /\ result.kind = "NOT_FOUND"
    /\ result.status = 404
    /\ ~result.retryable

-----------------------------------------------------------------------------
(* Properties of creation under retries *)

\* C29: one createTask or createProject call makes the remote store create at
\* most one entity, whatever the interleaving of processing, lost responses,
\* timeouts and retries.
C29_AtMostOneCreate ==
    op \in {"createTask", "createProject"} => created <= 1

-----------------------------------------------------------------------------
(* Termination of a logical call *)

\* C30: a logical call in progress ends with a success value or a typed
\* failure, the read of a response body included, and the timer of an
\* attempt is not armed once the attempt has ended.
C30_CallTerminates ==
    /\ (pc \in {"fetching", "errbody", "body", "backoff"}) ~>
          (pc = "done" /\ result.tag \in {"success", "failure"} /\ result.typed)
    /\ [](/\ timers \subseteq {attempts}
          /\ pc \in {"errbody", "body", "backoff", "done"} => timers = {})

=============================================================================
